---- MODULE Spec2Model ----
(***************************************************************************)
(* A model of src/index.js of ai-code-review-action: one run of the       *)
(* action (run), the two push diff collectors (getPushDiff,               *)
(* getLatestPushDiff), the review request (getReview) and the email       *)
(* dispatch (sendEmail).                                                   *)
(*                                                                         *)
(* A JavaScript string is a sequence of tokens (short strings); its       *)
(* length in characters is the sum of the tokens' lengths.  A value that  *)
(* may be undefined is a record [def, val].  Every awaited remote call is *)
(* two steps: the step that issues it (it joins inflight) and the step in *)
(* which it returns or throws.                                             *)
(***************************************************************************)
EXTENDS Integers, Sequences, FiniteSets, TLC

VARIABLES
    eventName,      \* github.context.eventName
    inputsPresent,  \* whether the required inputs github-token, gemini-api-key are supplied
    commits,        \* github.context.payload.commits: [present, list]; the argument of the collectors
    pusherName,     \* github.context.payload.pusher.name
    hasPullRequest, \* whether github.context.payload.pull_request exists
    emailConfig,    \* the fields of emailConfig that sendEmail tests: [host, to]
    repoFiles,      \* the repository: commit id -> the file names repos.getCommit lists for it
    pc,             \* the position of the run
    idx,            \* the position of the collectors' loops
    diffs,          \* let diffs of getPushDiff / getLatestPushDiff
    diff,           \* const diff of run; the value a collector returned
    explanation,    \* const explanation of run
    userName,       \* let userName of run
    subject,        \* let subject of run
    body,           \* let body of run
    sendEmailCalled, \* whether run reached the call of sendEmail
    calls,          \* every call made to a collaborator, in order: [api, arg]
    inflight,       \* the indices in calls of the calls that have not returned yet
    failed,         \* the message given to core.setFailed, or "none"
    thrown,         \* the message of the error thrown in the run, or "none"
    logs,           \* the console output, in order
    latestCommitsForFiles, \* getLatestPushDiff: entries [filename, commitId] in insertion order
    processedCommits       \* getLatestPushDiff: the Set processedCommits

vars == <<eventName, inputsPresent, commits, pusherName, hasPullRequest, emailConfig,
          repoFiles, pc, idx, diffs, diff, explanation, userName, subject, body,
          sendEmailCalled, calls, inflight, failed, thrown, logs,
          latestCommitsForFiles, processedCommits>>

---------------------------------------------------------------------------
(* Bounds of the model *)

\* the longest commit list of a push
MaxCommits == 2
\* the longest review text, in tokens
MaxTextLen == 3

(* Constants of the program *)

\* sendEmail returns at once for a body of at most this many characters
MinBodyLength == 10
\* the number of fields on the path response.data.candidates[0].content.parts[0].text
ChainDepth == 7

CommitIds == {"c1", "c2", "c3"}
FileNames == {"a.js", "b.js"}
FetchErrors == {"Not Found", "Bad credentials"}
ReviewErrors == {"Request failed with status code 400", "Network Error"}
InputError == "Input required and not supplied: github-token"
TypeErrorUser == "Cannot read properties of undefined (reading 'user')"
prNumber == "42"
prUserLogin == "alice"
repoName == "demo"
PrDiffText == <<"diff --git a/a.js b/a.js">>

---------------------------------------------------------------------------
(* Strings *)

Undefined == [def |-> FALSE, val |-> <<>>]
Str(s) == [def |-> TRUE, val |-> s]
EmptyString == Str(<<>>)

\* the tokens a review text is made of
Alphabet == {"No ", "response", " ", "x"}

\* the number of characters of a token
TokenLen(t) ==
    CASE t = "No " -> 3
      [] t = "no " -> 3
      [] t = "response" -> 8
      [] t = "Error or " -> 9
      [] t = "error or " -> 9
      [] t = "<p>" -> 3
      [] t = "</p>" -> 4
      [] OTHER -> 1

RECURSIVE length(_)
\* String.prototype.length
length(s) == IF s = <<>> THEN 0 ELSE TokenLen(Head(s)) + length(Tail(s))

LowerToken(t) ==
    CASE t = "No " -> "no "
      [] t = "Error or " -> "error or "
      [] OTHER -> t

\* String.prototype.toLowerCase
toLowerCase(s) == [i \in 1..Len(s) |-> LowerToken(s[i])]

\* String.prototype.toUpperCase, of the repository name
toUpperCase(name) == IF name = "demo" THEN "DEMO" ELSE name

\* String.prototype.includes
includes(s, needle) ==
    \E i \in 1..(Len(s) - Len(needle) + 1) : SubSeq(s, i, i + Len(needle) - 1) = needle

RECURSIVE trimStart(_)
trimStart(s) == IF s # <<>> /\ Head(s) = " " THEN trimStart(Tail(s)) ELSE s

RECURSIVE trimEnd(_)
trimEnd(s) ==
    IF s # <<>> /\ s[Len(s)] = " " THEN trimEnd(SubSeq(s, 1, Len(s) - 1)) ELSE s

\* String.prototype.trim
trim(s) == trimEnd(trimStart(s))

\* converter.makeHtml of a one-line text without markup: a paragraph, its leading
\* blanks dropped; nothing for a text of blanks only
makeHtml(s) ==
    IF trimStart(s) = <<>> THEN <<>> ELSE <<"<p>">> \o trimStart(s) \o <<"</p>">>

\* the phrase run looks for in the lower-cased review text
NoResponse == <<"no ", "response">>
\* the value getReview returns for a response without the text field
Sentinel == <<"Error or ", "no ", "response", "!">>

ReviewTexts == UNION {[1..n -> Alphabet] : n \in 0..MaxTextLen}

\* the responses of the generative-language API: missing = 0 has every field of the
\* path to the text; missing = k lacks the k-th field of it
Responses ==
    {[missing |-> 0, text |-> t] : t \in ReviewTexts}
        \cup {[missing |-> k, text |-> <<>>] : k \in 1..ChainDepth}

\* response?.data?.candidates?.[0]?.content?.parts?.[0]?.text ?? 'Error or no response!'
extractText(response) == IF response.missing = 0 THEN response.text ELSE Sentinel

---------------------------------------------------------------------------
(* The repository and the diff text of a push *)

\* the commit lists of a push: distinct commit ids
CommitLists ==
    {s \in UNION {[1..n -> CommitIds] : n \in 0..MaxCommits} :
        \A i, j \in 1..Len(s) : i # j => s[i] # s[j]}

\* the file lists of a commit: distinct file names
FileLists ==
    {s \in UNION {[1..n -> FileNames] : n \in 0..Cardinality(FileNames)} :
        \A i, j \in 1..Len(s) : i # j => s[i] # s[j]}

\* the repository the runs of the action are checked on
DemoRepo == [c \in CommitIds |->
                CASE c = "c1" -> <<"a.js", "b.js">>
                  [] c = "c2" -> <<"b.js">>
                  [] OTHER -> <<>>]

\* the patch of file f in commit c
Patch(c, f) == <<"+", c, "/", f>>

\* commitData.files of the response of octokit.rest.repos.getCommit for ref c
getCommitFiles(c) ==
    [i \in 1..Len(repoFiles[c]) |->
        [filename |-> repoFiles[c][i], patch |-> Patch(c, repoFiles[c][i])]]

\* `Commit: ${id}\nFile: ${file.filename}\n${file.patch}\n`
Block(id, file) ==
    <<"Commit: ", id, "\n", "File: ", file.filename, "\n">> \o file.patch \o <<"\n">>

RECURSIVE join(_, _)
\* Array.prototype.join
join(parts, sep) ==
    IF parts = <<>> THEN <<>>
    ELSE IF Len(parts) = 1 THEN parts[1]
    ELSE parts[1] \o sep \o join(Tail(parts), sep)

\* what getPushDiff adds to diffs for one commit
commitDiffText(id, files) ==
    join([i \in 1..Len(files) |-> Block(id, files[i])], <<"\n">>)

---------------------------------------------------------------------------
(* The steps of run *)

Call(api, arg) == [api |-> api, arg |-> arg]
Log(msg, arg) == [msg |-> msg, arg |-> arg]

\* the collaborator's call a run is suspended on: the last one it made
Awaited == Len(calls)

InitRun ==
    /\ pc = "start"
    /\ idx = 0
    /\ diffs = <<>>
    /\ diff = <<>>
    /\ explanation = Undefined
    /\ userName = ""
    /\ subject = <<>>
    /\ body = EmptyString
    /\ sendEmailCalled = FALSE
    /\ calls = <<>>
    /\ inflight = {}
    /\ failed = "none"
    /\ thrown = "none"
    /\ logs = <<>>
    /\ latestCommitsForFiles = <<>>
    /\ processedCommits = {}

Init ==
    /\ eventName \in {"pull_request", "push", "issues"}
    /\ inputsPresent \in BOOLEAN
    /\ emailConfig \in [host : {"", "smtp.example.com"}, to : {"", "dev@example.com"}]
    /\ repoFiles = DemoRepo
    /\ IF eventName = "push"
       THEN /\ commits \in {[present |-> FALSE, list |-> <<>>]}
                               \cup {[present |-> TRUE, list |-> l] : l \in CommitLists}
            /\ pusherName \in {"", "bob"}
            /\ hasPullRequest \in BOOLEAN
       ELSE /\ commits = [present |-> FALSE, list |-> <<>>]
            /\ pusherName = ""
            /\ hasPullRequest = (eventName = "pull_request")
    /\ InitRun

\* the catch of run: core.setFailed(error.message)
Throw(msg) ==
    /\ thrown' = msg
    /\ failed' = msg
    /\ pc' = "done"

\* getReview up to its await: axios.post with the prompt that embeds the diff
CallGetReview(d, made) ==
    /\ diff' = d
    /\ calls' = Append(made, Call("generateContent", d))
    /\ inflight' = {Len(made) + 1}
    /\ pc' = "await_review"

\* core.getInput(..., { required: true }) throws for an input that is not supplied
RunMissingInput ==
    /\ pc = "start"
    /\ ~inputsPresent
    /\ Throw(InputError)
    /\ UNCHANGED <<eventName, inputsPresent, commits, pusherName, hasPullRequest,
                   emailConfig, repoFiles, idx, diffs, diff, explanation, userName,
                   subject, body, sendEmailCalled, calls, inflight, logs,
                   latestCommitsForFiles, processedCommits>>

\* run for a pull request, up to the await in getPrDiff
RunPullRequest ==
    /\ pc = "start"
    /\ inputsPresent
    /\ eventName = "pull_request"
    /\ calls' = Append(calls, Call("pulls.get", <<prNumber>>))
    /\ inflight' = {Len(calls) + 1}
    /\ pc' = "await_getPrDiff"
    /\ UNCHANGED <<eventName, inputsPresent, commits, pusherName, hasPullRequest,
                   emailConfig, repoFiles, idx, diffs, diff, explanation, userName,
                   subject, body, sendEmailCalled, failed, thrown, logs,
                   latestCommitsForFiles, processedCommits>>

\* octokit.rest.pulls.get throws
GetPrDiffFails ==
    /\ pc = "await_getPrDiff"
    /\ \E msg \in FetchErrors : Throw(msg)
    /\ inflight' = inflight \ {Awaited}
    /\ UNCHANGED <<eventName, inputsPresent, commits, pusherName, hasPullRequest,
                   emailConfig, repoFiles, idx, diffs, diff, explanation, userName,
                   subject, body, sendEmailCalled, calls, logs,
                   latestCommitsForFiles, processedCommits>>

\* octokit.rest.pulls.get returns the diff; run goes on to getReview
GetPrDiffReturns ==
    /\ pc = "await_getPrDiff"
    /\ CallGetReview(PrDiffText, calls)
    /\ UNCHANGED <<eventName, inputsPresent, commits, pusherName, hasPullRequest,
                   emailConfig, repoFiles, idx, diffs, explanation, userName,
                   subject, body, sendEmailCalled, failed, thrown, logs,
                   latestCommitsForFiles, processedCommits>>

noCommits_AbsentOnly(c) == ~c.present

\* !commits || commits.length === 0
noCommits(c) == ~c.present \/ Len(c.list) = 0

getPushDiffStart_AllAtOnce ==
    /\ diffs' = <<>>
    /\ idx' = 1
    /\ calls' = calls \o [i \in 1..Len(commits.list) |->
                            Call("repos.getCommit", <<commits.list[i]>>)]
    /\ inflight' = (Len(calls) + 1)..(Len(calls) + Len(commits.list))
    /\ pc' = "await_getCommit"
    /\ UNCHANGED <<diff, failed, thrown>>

\* getPushDiff up to its first await; for an empty list it returns '' and run goes on
\* to getReview; a list that is absent is not iterable
getPushDiffStart ==
    IF ~commits.present
    THEN /\ Throw("commits is not iterable")
         /\ UNCHANGED <<idx, diffs, diff, calls, inflight>>
    ELSE IF Len(commits.list) = 0
    THEN /\ diffs' = <<>>
         /\ CallGetReview(<<>>, calls)
         /\ UNCHANGED <<idx, failed, thrown>>
    ELSE /\ diffs' = <<>>
         /\ idx' = 1
         /\ calls' = Append(calls, Call("repos.getCommit", <<commits.list[1]>>))
         /\ inflight' = {Len(calls) + 1}
         /\ pc' = "await_getCommit"
         /\ UNCHANGED <<diff, failed, thrown>>

\* run for a push, up to the first await of getPushDiff
RunPush ==
    /\ pc = "start"
    /\ inputsPresent
    /\ eventName = "push"
    /\ IF pusherName = "" /\ ~hasPullRequest
       THEN \* payload.pull_request is undefined: reading .user throws a TypeError
            /\ userName' = pusherName
            /\ Throw(TypeErrorUser)
            /\ UNCHANGED <<idx, diffs, diff, calls, inflight, logs>>
       ELSE /\ userName' = IF pusherName # "" THEN pusherName ELSE prUserLogin
            /\ IF noCommits(commits)
               THEN /\ logs' = Append(logs, Log("No commits found in push event.", <<>>))
                    /\ pc' = "done"
                    /\ UNCHANGED <<idx, diffs, diff, calls, inflight, failed, thrown>>
               ELSE /\ getPushDiffStart
                    /\ UNCHANGED logs
    /\ UNCHANGED <<eventName, inputsPresent, commits, pusherName, hasPullRequest,
                   emailConfig, repoFiles, explanation, subject, body,
                   sendEmailCalled, latestCommitsForFiles, processedCommits>>

\* run for any other event: neither branch is taken and body stays ''
RunOtherEvent ==
    /\ pc = "start"
    /\ inputsPresent
    /\ eventName \notin {"pull_request", "push"}
    /\ pc' = "done"
    /\ UNCHANGED <<eventName, inputsPresent, commits, pusherName, hasPullRequest,
                   emailConfig, repoFiles, idx, diffs, diff, explanation, userName,
                   subject, body, sendEmailCalled, calls, inflight, failed, thrown,
                   logs, latestCommitsForFiles, processedCommits>>

GetCommitFails_Skips ==
    /\ pc = "await_getCommit"
    /\ \E msg \in FetchErrors : thrown' = msg
    /\ CallGetReview(diffs, calls)
    /\ UNCHANGED <<eventName, inputsPresent, commits, pusherName, hasPullRequest,
                   emailConfig, repoFiles, idx, diffs, explanation, userName,
                   subject, body, sendEmailCalled, failed, logs,
                   latestCommitsForFiles, processedCommits>>

\* octokit.rest.repos.getCommit throws in getPushDiff
GetCommitFails ==
    /\ pc = "await_getCommit"
    /\ \E msg \in FetchErrors : Throw(msg)
    /\ inflight' = inflight \ {Awaited}
    /\ UNCHANGED <<eventName, inputsPresent, commits, pusherName, hasPullRequest,
                   emailConfig, repoFiles, idx, diffs, diff, explanation, userName,
                   subject, body, sendEmailCalled, calls, logs,
                   latestCommitsForFiles, processedCommits>>

\* octokit.rest.repos.getCommit returns in getPushDiff: the commit's text is added,
\* and the loop goes on to the next commit or getPushDiff returns to run
GetCommitReturns ==
    /\ pc = "await_getCommit"
    /\ LET id == commits.list[idx]
           added == diffs \o commitDiffText(id, getCommitFiles(id))
       IN  /\ diffs' = added
           /\ IF idx < Len(commits.list)
              THEN /\ idx' = idx + 1
                   /\ calls' = Append(calls,
                                      Call("repos.getCommit", <<commits.list[idx + 1]>>))
                   /\ inflight' = {Len(calls) + 1}
                   /\ UNCHANGED <<pc, diff>>
              ELSE /\ CallGetReview(added, calls)
                   /\ UNCHANGED idx
    /\ UNCHANGED <<eventName, inputsPresent, commits, pusherName, hasPullRequest,
                   emailConfig, repoFiles, explanation, userName, subject, body,
                   sendEmailCalled, failed, thrown, logs,
                   latestCommitsForFiles, processedCommits>>

---------------------------------------------------------------------------
(* The review's return and the dispatch *)

shouldSendEmail_CaseSensitive(b) ==
    b.def /\ b.val # <<>> /\ ~includes(b.val, NoResponse)

\* body && !body.toLowerCase().includes('no response')
shouldSendEmail(b) ==
    b.def /\ b.val # <<>> /\ ~includes(toLowerCase(b.val), NoResponse)

sendEmail_NeedsBothMissing(html, config) ==
    IF length(html) <= MinBodyLength THEN "return"
    ELSE IF config.host = "" /\ config.to = "" THEN "log"
    ELSE "send"

\* which branch sendEmail takes: it returns at once, it logs that no credentials
\* are configured, or it creates the transport and sends
sendEmail(html, config) ==
    IF length(html) <= MinBodyLength THEN "return"
    ELSE IF config.host = "" \/ config.to = "" THEN "log"
    ELSE "send"

\* the subject run builds
Subject(name) ==
    IF eventName = "pull_request"
    THEN <<"Code Review: Pull Request #", prNumber, " in ", toUpperCase(repoName),
           " By ", name>>
    ELSE <<"Code Review: Push Event in ", toUpperCase(repoName), " By ", name>>

\* run from the return of getReview to its end: the subject and body, the test of
\* the body, its rendering, and sendEmail up to the call of transporter.sendMail,
\* which is given a callback and so is not waited for
Dispatch(expl, lg) ==
    LET name == IF eventName = "pull_request" THEN prUserLogin ELSE userName
        shown == IF eventName = "push"
                 THEN lg \o <<Log("explanation", <<>>),
                              Log("", IF expl.def THEN expl.val ELSE <<"undefined">>)>>
                 ELSE lg
        html == trim(makeHtml(expl.val))
        called == shouldSendEmail(expl) /\ html # <<>>
        branch == IF called THEN sendEmail(html, emailConfig) ELSE "none"
    IN  /\ explanation' = expl
        /\ userName' = name
        /\ subject' = Subject(name)
        /\ body' = IF shouldSendEmail(expl) THEN Str(html) ELSE expl
        /\ sendEmailCalled' = called
        /\ logs' = IF branch = "log"
                   THEN Append(shown, Log("No email credentials confirued!", <<>>))
                   ELSE shown
        /\ calls' = IF branch = "send"
                    THEN calls \o <<Call("createTransport", <<emailConfig.host>>),
                                    Call("sendMail", html)>>
                    ELSE calls
        /\ inflight' = IF branch = "send" THEN {Len(calls) + 2} ELSE {}
        /\ pc' = "done"

GetReviewCatch_Rethrows ==
    /\ pc = "await_review"
    /\ \E msg \in ReviewErrors : Throw(msg)
    /\ inflight' = {}
    /\ UNCHANGED <<eventName, inputsPresent, commits, pusherName, hasPullRequest,
                   emailConfig, repoFiles, idx, diffs, diff, explanation, userName,
                   subject, body, sendEmailCalled, calls, logs,
                   latestCommitsForFiles, processedCommits>>

\* axios.post throws: getReview logs the error and returns undefined
GetReviewCatch ==
    /\ pc = "await_review"
    /\ \E msg \in ReviewErrors :
            thrown' = msg
    /\ Dispatch(Undefined, Append(logs, Log("Error:", <<>>)))
    /\ UNCHANGED <<eventName, inputsPresent, commits, pusherName, hasPullRequest,
                   emailConfig, repoFiles, idx, diffs, diff, failed,
                   latestCommitsForFiles, processedCommits>>

\* axios.post returns: getReview returns the response's text, or the sentinel
GetReviewReturns ==
    /\ pc = "await_review"
    /\ \E response \in Responses : Dispatch(Str(extractText(response)), logs)
    /\ UNCHANGED <<eventName, inputsPresent, commits, pusherName, hasPullRequest,
                   emailConfig, repoFiles, idx, diffs, diff, failed, thrown,
                   latestCommitsForFiles, processedCommits>>

\* the callback given to transporter.sendMail: it logs the error or the success
SendMailCallback ==
    /\ pc = "done"
    /\ \E i \in inflight :
          /\ calls[i].api = "sendMail"
          /\ inflight' = inflight \ {i}
    /\ \E msg \in {"Error sending email:", "Email sent: "} :
          logs' = Append(logs, Log(msg, <<>>))
    /\ UNCHANGED <<eventName, inputsPresent, commits, pusherName, hasPullRequest,
                   emailConfig, repoFiles, pc, idx, diffs, diff, explanation,
                   userName, subject, body, sendEmailCalled, calls, failed, thrown,
                   latestCommitsForFiles, processedCommits>>

Next ==
    \/ RunMissingInput
    \/ RunPullRequest
    \/ RunPush
    \/ RunOtherEvent
    \/ GetPrDiffFails
    \/ GetPrDiffReturns
    \/ GetCommitFails
    \/ GetCommitReturns
    \/ GetReviewCatch
    \/ GetReviewReturns
    \/ SendMailCallback

Spec == Init /\ [][Next]_vars

---------------------------------------------------------------------------
(* getLatestPushDiff, called on its own with a commit list *)

RECURSIVE setEntry(_, _, _)
\* latestCommitsForFiles[filename] = commitId: a new key is added last, a key that
\* is there keeps its place
setEntry(entries, filename, commitId) ==
    IF entries = <<>> THEN <<[filename |-> filename, commitId |-> commitId]>>
    ELSE IF Head(entries).filename = filename
    THEN <<[filename |-> filename, commitId |-> commitId]>> \o Tail(entries)
    ELSE <<Head(entries)>> \o setEntry(Tail(entries), filename, commitId)

RECURSIVE setEntries(_, _, _)
\* the inner loop of step 1, over commitData.files
setEntries(entries, files, commitId) ==
    IF files = <<>> THEN entries
    ELSE setEntries(setEntry(entries, Head(files).filename, commitId),
                    Tail(files), commitId)

RECURSIVE matchingBlocks(_, _, _)
\* the inner loop of step 2: the blocks of the files named filename
matchingBlocks(files, filename, commitId) ==
    IF files = <<>> THEN <<>>
    ELSE (IF Head(files).filename = filename THEN Block(commitId, Head(files)) ELSE <<>>)
            \o matchingBlocks(Tail(files), filename, commitId)

RECURSIVE nextEntry(_, _, _)
\* the next entry of Object.entries(latestCommitsForFiles), from position i on,
\* whose commit is not in processedCommits; Len(entries) + 1 when there is none
nextEntry(entries, i, processed) ==
    IF i > Len(entries) THEN i
    ELSE IF entries[i].commitId \notin processed THEN i
    ELSE nextEntry(entries, i + 1, processed)

InitLatest ==
    /\ eventName = "push"
    /\ inputsPresent = TRUE
    /\ emailConfig = [host |-> "", to |-> ""]
    /\ repoFiles \in [CommitIds -> FileLists]
    /\ commits \in {[present |-> TRUE, list |-> l] : l \in CommitLists}
    /\ pusherName = "bob"
    /\ hasPullRequest = FALSE
    /\ InitRun

\* step 2 from entry i on: the fetch for the next entry whose commit is not
\* processed yet, or the return of diffs
LatestStep2(entries, i, processed, text, made) ==
    LET n == nextEntry(entries, i, processed)
    IN  /\ idx' = n
        /\ diffs' = text
        /\ IF n <= Len(entries)
           THEN /\ calls' = Append(made, Call("repos.getCommit", <<entries[n].commitId>>))
                /\ inflight' = {Len(made) + 1}
                /\ pc' = "latest_step2"
                /\ diff' = diff
           ELSE /\ calls' = made
                /\ inflight' = {}
                /\ pc' = "latest_done"
                /\ diff' = text

\* getLatestPushDiff up to its first await
LatestStart ==
    /\ pc = "start"
    /\ latestCommitsForFiles' = <<>>
    /\ processedCommits' = {}
    /\ IF Len(commits.list) = 0
       THEN LatestStep2(<<>>, 1, {}, <<>>, calls)
       ELSE /\ idx' = 1
            /\ calls' = Append(calls, Call("repos.getCommit", <<commits.list[1]>>))
            /\ inflight' = {Len(calls) + 1}
            /\ pc' = "latest_step1"
            /\ UNCHANGED <<diffs, diff>>
    /\ UNCHANGED <<eventName, inputsPresent, commits, pusherName, hasPullRequest,
                   emailConfig, repoFiles, explanation, userName, subject, body,
                   sendEmailCalled, failed, thrown, logs>>

\* octokit.rest.repos.getCommit throws in either step: getLatestPushDiff rejects
LatestGetCommitFails ==
    /\ pc \in {"latest_step1", "latest_step2"}
    /\ \E msg \in FetchErrors : Throw(msg)
    /\ inflight' = {}
    /\ UNCHANGED <<eventName, inputsPresent, commits, pusherName, hasPullRequest,
                   emailConfig, repoFiles, idx, diffs, diff, explanation, userName,
                   subject, body, sendEmailCalled, calls, logs,
                   latestCommitsForFiles, processedCommits>>

\* octokit.rest.repos.getCommit returns in step 1: the commit becomes the latest
\* one of each of its files; then the next commit, or step 2
LatestStep1Returns ==
    /\ pc = "latest_step1"
    /\ LET id == commits.list[idx]
           entries == setEntries(latestCommitsForFiles, getCommitFiles(id), id)
       IN  /\ latestCommitsForFiles' = entries
           /\ IF idx < Len(commits.list)
              THEN /\ idx' = idx + 1
                   /\ calls' = Append(calls,
                                      Call("repos.getCommit", <<commits.list[idx + 1]>>))
                   /\ inflight' = {Len(calls) + 1}
                   /\ UNCHANGED <<pc, diffs, diff>>
              ELSE LatestStep2(entries, 1, {}, <<>>, calls)
    /\ UNCHANGED <<eventName, inputsPresent, commits, pusherName, hasPullRequest,
                   emailConfig, repoFiles, explanation, userName, subject, body,
                   sendEmailCalled, failed, thrown, logs, processedCommits>>

\* octokit.rest.repos.getCommit returns in step 2: the blocks of the entry's file
\* are added and the commit is marked processed; then the next entry, or the return
LatestStep2Returns ==
    /\ pc = "latest_step2"
    /\ LET entry == latestCommitsForFiles[idx]
           text == diffs \o matchingBlocks(getCommitFiles(entry.commitId),
                                           entry.filename, entry.commitId)
           processed == processedCommits \cup {entry.commitId}
       IN  /\ processedCommits' = processed
           /\ LatestStep2(latestCommitsForFiles, idx + 1, processed, text, calls)
    /\ UNCHANGED <<eventName, inputsPresent, commits, pusherName, hasPullRequest,
                   emailConfig, repoFiles, explanation, userName, subject, body,
                   sendEmailCalled, failed, thrown, logs, latestCommitsForFiles>>

NextLatest ==
    \/ LatestStart
    \/ LatestGetCommitFails
    \/ LatestStep1Returns
    \/ LatestStep2Returns

SpecLatest == InitLatest /\ [][NextLatest]_vars

---------------------------------------------------------------------------
(* The properties *)

Made(api) == {i \in 1..Len(calls) : calls[i].api = api}
Logged(msg) == \E i \in 1..Len(logs) : logs[i].msg = msg
ConfigMissing == emailConfig.host = "" \/ emailConfig.to = ""

\* the text holds the phrase 'no response' in any mix of cases
ContainsNoResponse(text) ==
    \E i \in 1..(Len(text) - 1) : text[i] \in {"No ", "no "} /\ text[i + 1] = "response"

\* the run of a pull request got its diff and its review call has returned
PrReviewed ==
    /\ eventName = "pull_request"
    /\ pc = "done"
    /\ Made("generateContent") # {}

\* C1: a run for a pull request whose diff fetch succeeded and whose review step
\* returned posts the review text as a comment on the pull request.
C1_PullRequestReviewIsCommented ==
    PrReviewed => Made("issues.createComment") # {}

\* C2: transporter.sendMail is called only for a review text that is there, is not
\* empty, does not hold 'no response' in any case, and renders to more than 10
\* characters of HTML.
C2_NoEmailForAbsentSentinelOrShort ==
    Made("sendMail") # {} =>
        /\ explanation.def
        /\ explanation.val # <<>>
        /\ ~ContainsNoResponse(explanation.val)
        /\ length(body.val) > MinBodyLength
        /\ \A i \in Made("sendMail") : calls[i].arg = body.val

\* C2 happens: a run with the email configured ended on a review text that holds
\* 'No response' (not the sentinel itself), and nothing was sent
C2_Witness ==
    /\ pc = "done"
    /\ ~ConfigMissing
    /\ explanation.def
    /\ ContainsNoResponse(explanation.val)
    /\ explanation.val # Sentinel
    /\ Made("sendMail") = {}

C4_FetchFailureAborts ==
    thrown \in FetchErrors =>
        /\ pc = "done"
        /\ failed = thrown
        /\ Made("generateContent") = {}
        /\ Made("createTransport") = {}
        /\ Made("sendMail") = {}
        /\ Made("issues.createComment") = {}
        /\ ~sendEmailCalled
        /\ explanation = Undefined
        /\ inflight = {}

\* C4 happens: the fetch of the second commit of a push threw
C4_Witness ==
    /\ thrown \in FetchErrors
    /\ eventName = "push"
    /\ Len(commits.list) = 2
    /\ Cardinality(Made("repos.getCommit")) = 2

\* C5: a push whose commit list is empty or absent makes no call at all: no commit
\* fetch, no review request, no email, comment or issue.
C5_NoCommitsNoCalls ==
    (eventName = "push" /\ (~commits.present \/ commits.list = <<>>)) =>
        /\ calls = <<>>
        /\ inflight = {}
        /\ ~sendEmailCalled
        /\ explanation = Undefined

\* C5 happens: a push with an empty commit list ran to its end
C5_Witness ==
    /\ eventName = "push"
    /\ commits.present
    /\ commits.list = <<>>
    /\ pc = "done"
    /\ failed = "none"
    /\ Logged("No commits found in push event.")

\* C6: at most one call is outstanding, and it is the last one made; the commits of
\* a push are fetched one by one in the order of the commit list; the review is
\* requested after every fetch has returned; the email is sent after the review
\* has returned.
C6_CallsAreStrictlyOrdered ==
    /\ Cardinality(inflight) <= 1
    /\ inflight \subseteq {Len(calls)}
    /\ \A i \in Made("repos.getCommit") :
          /\ i <= Len(commits.list)
          /\ calls[i].arg = <<commits.list[i]>>
    /\ \A i \in Made("generateContent") :
          /\ thrown \notin FetchErrors
          /\ IF eventName = "push"
             THEN /\ i = Len(commits.list) + 1
                  /\ \A j \in 1..(i - 1) : calls[j].api = "repos.getCommit"
             ELSE i = 2 /\ calls[1].api = "pulls.get"
    /\ \A i \in Made("sendMail") :
          \E j \in Made("generateContent") : j < i /\ j \notin inflight

\* C6 happens: a push of two commits went through both fetches, the review and
\* the email
C6_Witness ==
    /\ eventName = "push"
    /\ Len(commits.list) = 2
    /\ Cardinality(Made("repos.getCommit")) = 2
    /\ Made("sendMail") # {}
    /\ pc = "done"

RECURSIVE Concat(_)
Concat(parts) == IF parts = <<>> THEN <<>> ELSE Head(parts) \o Concat(Tail(parts))

\* one block per changed file, in commit order and then file order, nothing between
BlocksOfPush(list) ==
    Concat([i \in 1..Len(list) |->
               Concat([k \in 1..Len(getCommitFiles(list[i])) |->
                          Block(list[i], getCommitFiles(list[i])[k])])])

\* C7: the text getPushDiff returns is the concatenation, in commit order and then
\* file order, of one block per changed file, with nothing between the blocks.
C7_PushDiffIsTheBlocks ==
    (eventName = "push" /\ pc = "await_review") => diff = BlocksOfPush(commits.list)

\* whether the commit at position i of the list touches file f
Touches(list, i, f) ==
    \E k \in 1..Len(repoFiles[list[i]]) : repoFiles[list[i]][k] = f

\* the files the commits of the list touch
TouchedFiles(list) == {f \in FileNames : \E i \in 1..Len(list) : Touches(list, i, f)}

\* the last commit of the list that touches file f
LastCommit(list, f) ==
    list[CHOOSE i \in 1..Len(list) :
            /\ Touches(list, i, f)
            /\ \A j \in (i + 1)..Len(list) : ~Touches(list, j, f)]

\* the places in a diff text where a block for file f has its File line
FileLines(text, f) ==
    {i \in 1..(Len(text) - 1) : text[i] = "File: " /\ text[i + 1] = f}

\* C8: the text getLatestPushDiff returns holds exactly one block per file touched
\* by a commit of the push, and the block is the one of the last commit of the push
\* that touched the file, with that commit's patch.
C8_LatestDiffHasOneBlockPerFile ==
    (pc = "latest_done" /\ failed = "none") =>
        \A f \in TouchedFiles(commits.list) :
            /\ Cardinality(FileLines(diff, f)) = 1
            /\ \A i \in FileLines(diff, f) :
                  /\ i > 3
                  /\ i + 7 <= Len(diff)
                  /\ SubSeq(diff, i - 3, i + 7) =
                        Block(LastCommit(commits.list, f),
                              [filename |-> f,
                               patch |-> Patch(LastCommit(commits.list, f), f)])

\* C9: a push whose pusher name is empty and whose payload has no pull request
\* leaves the name blank and runs to its end without a failure status.
C9_UnresolvedNameIsLeftBlank ==
    (/\ eventName = "push"
     /\ inputsPresent
     /\ pusherName = ""
     /\ ~hasPullRequest
     /\ pc = "done") =>
        /\ failed = "none"
        /\ userName = ""

\* C10 as stated: with no host or no recipient, sendEmail, for any body that is not
\* empty, creates no transport, sends nothing, does not throw, and logs the
\* diagnostic; the run sets no failure status.
C10_MissingConfigAlwaysLogs ==
    (sendEmailCalled /\ ConfigMissing) =>
        /\ Made("createTransport") = {}
        /\ Made("sendMail") = {}
        /\ failed = "none"
        /\ Logged("No email credentials confirued!")

\* C10 as amended: with no host or no recipient, sendEmail, for any body that is
\* not empty, creates no transport, sends nothing and does not throw, and the run
\* ends without a failure status; it logs the diagnostic exactly when the body is
\* longer than 10 characters, and returns without a log for a shorter one.
C10_MissingConfigIsNoOp ==
    (sendEmailCalled /\ ConfigMissing) =>
        /\ body.val # <<>>
        /\ Made("createTransport") = {}
        /\ Made("sendMail") = {}
        /\ inflight = {}
        /\ pc = "done"
        /\ failed = "none"
        /\ (Logged("No email credentials confirued!") <=> length(body.val) > MinBodyLength)

\* C10 happens: sendEmail was called with a host missing, a recipient set and a
\* body of more than 10 characters, and logged the diagnostic
C10_Witness ==
    /\ sendEmailCalled
    /\ emailConfig.host = ""
    /\ emailConfig.to # ""
    /\ length(body.val) > MinBodyLength
    /\ Logged("No email credentials confirued!")
    /\ pc = "done"

====
